---- MODULE Spec2Model ----
(***************************************************************************)
(* Model of the streaming batch upload of the Amazon-Fashion-Reviews       *)
(* pipeline: scripts/upload_streaming.py (upload_in_batches), the file     *)
(* probe of scripts/jsonl_processor.py (JSONLProcessor.get_file_info) and  *)
(* the object-store put of scripts/aws_s3_handler.py                       *)
(* (S3Handler.upload_dataframe).                                           *)
(*                                                                         *)
(* A source file is a sequence of lines.  A line is a record               *)
(* [text, n]: text is "blank" (whitespace only), "bad" (non-blank, not     *)
(* decodable as JSON) or "json" (a JSON object), and n is the 1-based      *)
(* physical line number, which stands for the content of the line.         *)
(***************************************************************************)
EXTENDS Integers, Sequences, FiniteSets, TLC

\* ------------------------------------------------------------------ bounds
MaxLines == 5
MaxBatchSize == 3
MaxDelay == 1
MaxLimit == 3

\* ------------------------------------------------------- inputs of the run
LineTexts == {"blank", "bad", "json"}

MkFile(texts) == [i \in 1..Len(texts) |-> [text |-> texts[i], n |-> i]]

Files == {MkFile(t) : t \in UNION {[1..k -> LineTexts] : k \in 0..MaxLines}}

\* The two call sites' paths: the script's default and the DAG task's default.
Filepaths ==
    { <<"..", "/", "meta_Amazon_Fashion", ".jsonl">>,
      <<"/", "opt", "/", "airflow", "/", "meta_Amazon_Fashion", ".jsonl">> }

\* What the operator may type at the prompt, as sequences of characters.
Answers ==
    { <<"y">>, <<"Y">>, <<" ", "y", " ">>, <<"n">>, <<"N">>,
      <<"y", "e", "s">>, <<>> }

\* Values datetime.now() may have when the run is confirmed (seconds).
Clock == {41, 42}

DEFAULT_S3_PREFIX == <<"raw/data/">>

\* ------------------------------------------------------------ pure helpers
Digit(d) == <<"0", "1", "2", "3", "4", "5", "6", "7", "8", "9">>[d + 1]

RECURSIVE Decimal(_)
Decimal(n) == IF n < 10 THEN <<Digit(n)>>
              ELSE Decimal(n \div 10) \o <<Digit(n % 10)>>

RECURSIVE ZeroPad(_, _)
ZeroPad(digits, width) ==
    IF Len(digits) >= width THEN digits ELSE ZeroPad(<<"0">> \o digits, width)

\* f'{batch_num:03d}'
Format03d(n) == ZeroPad(Decimal(n), 3)

\* datetime.now().strftime('%Y%m%d_%H%M%S'), for a clock value in seconds
Strftime(t) == <<"20240101", "_", "0000">> \o ZeroPad(Decimal(t), 2)

IsSpace(c) == c \in {" ", "\t", "\n"}

RECURSIVE LStrip(_)
LStrip(s) == IF s # <<>> /\ IsSpace(Head(s)) THEN LStrip(Tail(s)) ELSE s

RECURSIVE RStrip(_)
RStrip(s) == IF s # <<>> /\ IsSpace(s[Len(s)])
             THEN RStrip(SubSeq(s, 1, Len(s) - 1)) ELSE s

\* str.strip()
Strip(s) == RStrip(LStrip(s))

LowerChar(c) == CASE c = "Y" -> "y" [] c = "N" -> "n" [] OTHER -> c

\* str.lower()
Lower(s) == [i \in 1..Len(s) |-> LowerChar(s[i])]

RECURSIVE Basename(_)
\* os.path.basename: what follows the last separator
Basename(path) ==
    IF \E i \in 1..Len(path) : path[i] = "/"
    THEN Basename(Tail(path)) ELSE path

\* str.replace(old, ''): every occurrence of old is removed
ReplaceAll(s, old) == SelectSeq(s, LAMBDA c : c # old)

\* line.strip() is truthy
NonBlank(line) == line.text # "blank"

\* json.loads(line) returns (does not raise JSONDecodeError)
Decodable(line) == line.text = "json"

\* json.loads(line): the decoded record of a decodable line
JsonLoads(line) == [id |-> line.n]

\* sum(1 for line in f if line.strip())
CountNonBlank(f) == Cardinality({i \in 1..Len(f) : NonBlank(f[i])})

\* JSONLProcessor.get_file_info: a first line that does not decode raises
\* inside the try, and the except leaves line_count at 0.
GetFileInfo(f) ==
    IF f # <<>> /\ NonBlank(f[1]) /\ ~Decodable(f[1])
    THEN [line_count |-> 0, sample_keys |-> <<>>]
    ELSE [line_count |-> CountNonBlank(f),
          sample_keys |-> IF f # <<>> /\ NonBlank(f[1])
                          THEN <<"id">> ELSE <<>>]

\* the remainder's batch is forgotten
NumBatches_Floor(total, size) == total \div size

\* num_batches = (total_lines // batch_size) + (1 if remainder else 0)
NumBatches(total, size) ==
    (total \div size) + (IF total % size > 0 THEN 1 ELSE 0)

\* the key without the run timestamp: a later run overwrites the objects
S3Key_NoTimestamp(prefix, name, num, ts) ==
    prefix \o name \o <<"_batch">> \o Format03d(num) \o <<".parquet">>

\* the key without its batch number: every batch is put under one name
S3Key_NoBatchNum(prefix, name, num, ts) ==
    prefix \o name \o <<"_batch">> \o <<"_">> \o ts \o <<".parquet">>

S3Key(prefix, name, num, ts) ==
    prefix \o name \o <<"_batch">> \o Format03d(num) \o <<"_">> \o ts
        \o <<".parquet">>

\* a batch is sealed one record late
BatchFull_Strict(batch, size) == Len(batch) > size

\* len(batch_data) >= batch_size
BatchFull(batch, size) == Len(batch) >= size

\* the record is put in front of the buffer
AppendRecord_Prepend(batch, rec) == <<rec>> \o batch

\* batch_data.append(record)
AppendRecord(batch, rec) == Append(batch, rec)

\* ------------------------------------------------------------------- state
VARIABLES
    filepath, batch_size, delay_seconds,  \* arguments of upload_in_batches
    exists, file,                         \* the source file on disk
    pc,                                   \* position of the run
    total_lines, sample_keys, num_batches,
    typed,                                \* what input() returned
    confirm, timestamp, filename,
    batch_num, total_uploaded,
    f, f_pos,                             \* the file handle and its position
    batch_data, line_num,
    countdown,                            \* i of the pacing loop
    s3,                                   \* objects put, in order
    events, slept,                        \* puts and pacing waits, in order
    outcome, exc,                         \* how the run ended
    printed,                              \* summaries printed
    limit,                                \* read_jsonl: <<>> is None
    rd_pc,                                \* read_jsonl: position of the call
    fetched,                              \* read_jsonl: lines taken from f
    data,                                 \* read_jsonl: the result list
    loads,                                \* lines given to json.loads
    warnings,                             \* line numbers logged as skipped
    task                                  \* outcome of the DAG task

vars == <<filepath, batch_size, delay_seconds, exists, file, pc, total_lines,
          sample_keys, num_batches, typed, confirm, timestamp, filename, batch_num,
          total_uploaded, f, f_pos, batch_data, line_num, countdown, s3,
          events, slept, outcome, exc, printed, limit, rd_pc, fetched, data,
          loads, warnings, task>>

args == <<filepath, batch_size, delay_seconds, exists, file>>
probe == <<total_lines, sample_keys, num_batches>>
run == <<typed, confirm, timestamp, filename>>
reader == <<limit, rd_pc, fetched, data, loads, warnings>>
uploader == <<batch_size, delay_seconds, pc, probe, run, batch_num,
              total_uploaded, f, f_pos, batch_data, line_num, countdown, s3,
              events, slept, outcome, exc, printed>>

Init ==
    /\ filepath \in Filepaths
    /\ batch_size \in 1..MaxBatchSize
    /\ delay_seconds \in 0..MaxDelay
    /\ exists \in BOOLEAN
    /\ file \in (IF exists THEN Files ELSE {<<>>})
    /\ pc = "start"
    /\ total_lines = 0
    /\ sample_keys = <<>>
    /\ num_batches = 0
    /\ typed = <<>>
    /\ confirm = <<>>
    /\ timestamp = <<>>
    /\ filename = <<>>
    /\ batch_num = 0
    /\ total_uploaded = 0
    /\ f = "unopened"
    /\ f_pos = 0
    /\ batch_data = <<>>
    /\ line_num = 0
    /\ countdown = 0
    /\ s3 = <<>>
    /\ events = <<>>
    /\ slept = 0
    /\ outcome = "running"
    /\ exc = "none"
    /\ printed = <<>>
    /\ limit = <<>>
    /\ rd_pc = "idle"
    /\ fetched = 0
    /\ data = <<>>
    /\ loads = <<>>
    /\ warnings = <<>>
    /\ task = <<>>

\* the handle is not released when an exception leaves the loop
Caught_Leak(kind, name, bn, tu) ==
    /\ pc' = "done"
    /\ f' = f
    /\ outcome' = kind
    /\ exc' = name
    /\ printed' = Append(printed,
                         [kind |-> kind, batches |-> bn, records |-> tu])

\* the except clause prints its summary and raises the exception again
Caught_Reraise(kind, name, bn, tu) ==
    /\ pc' = "raised"
    /\ f' = "closed"
    /\ outcome' = kind
    /\ exc' = name
    /\ printed' = Append(printed,
                         [kind |-> kind, batches |-> bn, records |-> tu])

\* The with block is left (the handle is closed) and an except clause of
\* the try prints its summary from batch_num and total_uploaded.
Caught(kind, name, bn, tu) ==
    /\ pc' = "done"
    /\ f' = "closed"
    /\ outcome' = kind
    /\ exc' = name
    /\ printed' = Append(printed, [kind |-> kind, batches |-> bn, records |-> tu])

\* The with block is left normally and the completion summary is printed;
\* the average time per batch divides by batch_num.
Complete(bn, tu) ==
    /\ pc' = "done"
    /\ f' = "closed"
    /\ IF bn = 0
       THEN /\ outcome' = "failed"
            /\ exc' = "ZeroDivisionError"
            /\ printed' = printed \o
                   << [kind |-> "completed", batches |-> bn, records |-> tu],
                      [kind |-> "failed", batches |-> bn, records |-> tu] >>
       ELSE /\ outcome' = "completed"
            /\ exc' = "none"
            /\ printed' = Append(printed,
                   [kind |-> "completed", batches |-> bn, records |-> tu])

\* s3_handler.upload_dataframe returned: the object is in the bucket.
PutObject(key, rows) ==
    s3' = Append(s3, [key |-> key, rows |-> rows])

\* the existence check is missing: the probe and the prompt always follow
Start_NoExistsCheck ==
    /\ pc = "start"
    /\ total_lines' = GetFileInfo(file).line_count
    /\ sample_keys' = GetFileInfo(file).sample_keys
    /\ num_batches' = NumBatches(total_lines', batch_size)
    /\ pc' = "prompt"
    /\ UNCHANGED <<task, reader, args, run, batch_num, total_uploaded, f, f_pos,
                   batch_data, line_num, countdown, s3, events, slept,
                   outcome, exc, printed>>

\* upload_in_batches up to the prompt: existence check, probe, projection.
Start ==
    /\ pc = "start"
    /\ IF ~exists
       THEN /\ pc' = "done"
            /\ outcome' = "not_found"
            /\ UNCHANGED probe
       ELSE /\ total_lines' = GetFileInfo(file).line_count
            /\ sample_keys' = GetFileInfo(file).sample_keys
            /\ num_batches' = NumBatches(total_lines', batch_size)
            /\ pc' = "prompt"
            /\ UNCHANGED outcome
    /\ UNCHANGED <<task, reader, args, run, batch_num, total_uploaded, f, f_pos,
                   batch_data, line_num, countdown, s3, events, slept, exc,
                   printed>>

\* input() returns what the operator typed.
Prompt ==
    /\ pc = "prompt"
    /\ \E answer \in Answers : typed' = answer
    /\ pc' = "confirm"
    /\ UNCHANGED <<task, reader, args, probe, confirm, timestamp, filename, batch_num, total_uploaded, f, f_pos,
                   batch_data, line_num, countdown, s3, events, slept,
                   outcome, exc, printed>>

\* not confirm.startswith('y')
Declines_Prefix(c) == ~(c # <<>> /\ Head(c) = "y")

\* confirm != 'y'
Declines(c) == c # <<"y">>

\* The answer is trimmed, lower-cased and compared: a negative answer
\* returns, a positive one fixes the run timestamp and the file name and
\* opens the file.
Confirm ==
    /\ pc = "confirm"
    /\ confirm' = Lower(Strip(typed))
    /\ typed' = <<>>
    /\ IF Declines(confirm')
       THEN /\ pc' = "done"
            /\ outcome' = "declined"
            /\ UNCHANGED <<timestamp, filename, f>>
       ELSE /\ \E now \in Clock : timestamp' = Strftime(now)
            /\ filename' = ReplaceAll(Basename(filepath), ".jsonl")
            /\ f' = "open"
            /\ pc' = "scan"
            /\ UNCHANGED outcome
    /\ batch_num' = 0
    /\ total_uploaded' = 0
    /\ UNCHANGED <<task, reader, args, probe, f_pos, batch_data, line_num, countdown, s3,
                   events, slept, exc, printed>>

\* One iteration of `for line in f`, up to the call of upload_dataframe.
ReadLine ==
    /\ pc = "scan"
    /\ f_pos < Len(file)
    /\ f_pos' = f_pos + 1
    /\ LET line == file[f_pos + 1] IN
       IF NonBlank(line) /\ ~Decodable(line)
       THEN \* except json.JSONDecodeError: continue
            /\ UNCHANGED <<batch_data, line_num, batch_num, pc, f, outcome,
                           exc, printed>>
       ELSE /\ IF NonBlank(line)
               THEN /\ batch_data' = AppendRecord(batch_data, JsonLoads(line))
                    /\ line_num' = line_num + 1
               ELSE UNCHANGED <<batch_data, line_num>>
            /\ IF BatchFull(batch_data', batch_size)
               THEN /\ batch_num' = batch_num + 1
                    /\ IF total_lines = 0
                       THEN \* line_num/total_lines in the progress line
                            Caught("failed", "ZeroDivisionError",
                                   batch_num', total_uploaded)
                       ELSE /\ pc' = "upload"
                            /\ UNCHANGED <<f, outcome, exc, printed>>
               ELSE UNCHANGED <<batch_num, pc, f, outcome, exc, printed>>
    /\ UNCHANGED <<task, reader, args, probe, run, total_uploaded, countdown, s3, events,
                   slept>>

\* the buffer is not cleared after the upload
UploadOk_KeepsBuffer ==
    /\ pc = "upload"
    /\ PutObject(S3Key(DEFAULT_S3_PREFIX, filename, batch_num, timestamp),
                 batch_data)
    /\ total_uploaded' = total_uploaded + Len(batch_data)
    /\ IF line_num < total_lines
       THEN /\ pc' = "wait"
            /\ countdown' = delay_seconds
            /\ events' = events \o <<"put", "wait">>
       ELSE /\ pc' = "scan"
            /\ events' = Append(events, "put")
            /\ UNCHANGED countdown
    /\ UNCHANGED <<task, reader, args, probe, run, batch_num, f, f_pos, batch_data,
                   line_num, slept, outcome, exc, printed>>

\* upload_dataframe of a full batch returns; the pacing wait is entered
\* while line_num < total_lines.
UploadOk ==
    /\ pc = "upload"
    /\ PutObject(S3Key(DEFAULT_S3_PREFIX, filename, batch_num, timestamp),
                 batch_data)
    /\ total_uploaded' = total_uploaded + Len(batch_data)
    /\ batch_data' = <<>>
    /\ IF line_num < total_lines
       THEN \* "Waiting ... seconds before next batch"
            /\ pc' = "wait"
            /\ countdown' = delay_seconds
            /\ events' = events \o <<"put", "wait">>
       ELSE /\ pc' = "scan"
            /\ events' = Append(events, "put")
            /\ UNCHANGED countdown
    /\ UNCHANGED <<task, reader, args, probe, run, batch_num, f, f_pos, line_num, slept,
                   outcome, exc, printed>>

\* the countdown sleeps without counting down
Sleep_Stuck ==
    /\ pc = "wait"
    /\ countdown > 0
    /\ UNCHANGED vars

\* One round of the pacing countdown: time.sleep(1).
Sleep ==
    /\ pc = "wait"
    /\ countdown > 0
    /\ countdown' = countdown - 1
    /\ slept' = slept + 1
    /\ UNCHANGED <<task, reader, args, probe, run, pc, batch_num, total_uploaded, f, f_pos,
                   batch_data, line_num, s3, events, outcome, exc, printed>>

\* The countdown is over: back to the file.
EndWait ==
    /\ pc = "wait"
    /\ countdown = 0
    /\ pc' = "scan"
    /\ UNCHANGED <<task, reader, args, probe, run, batch_num, total_uploaded, f, f_pos,
                   batch_data, line_num, countdown, s3, events, slept,
                   outcome, exc, printed>>

\* The file is exhausted: a pending buffer becomes the final batch,
\* otherwise the run completes.
EndOfFile ==
    /\ pc = "scan"
    /\ f_pos = Len(file)
    /\ IF batch_data # <<>>
       THEN /\ batch_num' = batch_num + 1
            /\ pc' = "final_upload"
            /\ UNCHANGED <<f, outcome, exc, printed>>
       ELSE /\ Complete(batch_num, total_uploaded)
            /\ UNCHANGED batch_num
    /\ UNCHANGED <<task, reader, args, probe, run, total_uploaded, f_pos, batch_data,
                   line_num, countdown, s3, events, slept>>

\* upload_dataframe of the final batch returns and the run completes.
FinalUploadOk ==
    /\ pc = "final_upload"
    /\ PutObject(S3Key(DEFAULT_S3_PREFIX, filename, batch_num, timestamp),
                 batch_data)
    /\ events' = Append(events, "put")
    /\ total_uploaded' = total_uploaded + Len(batch_data)
    /\ Complete(batch_num, total_uploaded')
    /\ UNCHANGED <<task, reader, args, probe, run, batch_num, f_pos, batch_data, line_num,
                   countdown, slept>>

\* the failure is reported once and the upload is tried again
UploadFail_Retry ==
    /\ pc \in {"upload", "final_upload"}
    /\ outcome = "running"
    /\ outcome' = "failed"
    /\ exc' = "UploadError"
    /\ printed' = Append(printed, [kind |-> "failed", batches |-> batch_num,
                                    records |-> total_uploaded])
    /\ UNCHANGED <<task, reader, args, probe, run, pc, f, batch_num, total_uploaded, f_pos,
                   batch_data, line_num, countdown, s3, events, slept>>

\* upload_dataframe raises (serialization or put_object): except Exception.
UploadFail ==
    /\ pc \in {"upload", "final_upload"}
    /\ Caught("failed", "UploadError", batch_num, total_uploaded)
    /\ UNCHANGED <<task, reader, args, probe, run, batch_num, total_uploaded, f_pos,
                   batch_data, line_num, countdown, s3, events, slept>>

\* Ctrl-C inside the try (scanning, pacing, uploading): except
\* KeyboardInterrupt.  (Before the try, at the probe or the prompt, nothing
\* catches it; those runs are left out.)
Interrupt ==
    /\ pc \in {"scan", "wait", "upload", "final_upload"}
    /\ Caught("interrupted", "KeyboardInterrupt", batch_num, total_uploaded)
    /\ UNCHANGED <<task, reader, args, probe, run, batch_num, total_uploaded, f_pos,
                   batch_data, line_num, countdown, s3, events, slept>>

Next ==
    \/ Start
    \/ Prompt
    \/ Confirm
    \/ ReadLine
    \/ UploadOk
    \/ Sleep
    \/ EndWait
    \/ EndOfFile
    \/ FinalUploadOk
    \/ UploadFail
    \/ Interrupt

Spec == Init /\ [][Next]_vars

\* The interpreter always executes the next statement of the function, the
\* operator answers the prompt, and every call of upload_dataframe returns
\* or raises.  A Ctrl-C may come or not: it is not required to.
Fairness ==
    /\ WF_vars(Start \/ Prompt \/ Confirm \/ ReadLine \/ Sleep \/ EndWait
                  \/ EndOfFile)
    /\ WF_vars(UploadOk \/ FinalUploadOk \/ UploadFail)

LiveSpec == Init /\ [][Next]_vars /\ Fairness

\* ------------------------------------- DAG task upload_to_s3_streaming
\* os.getenv('JSONL_FILE_PATH', ...): the default path of the task.
JSONL_FILE_PATH ==
    <<"/", "opt", "/", "airflow", "/", "meta_Amazon_Fashion", ".jsonl">>

\* f"Uploaded to S3 in batches of {batch_size} every {delay_seconds} seconds"
SuccessMessage(size, delay) ==
    <<"Uploaded to S3 in batches of ">> \o Decimal(size) \o <<" every ">>
        \o Decimal(delay) \o <<" seconds">>

\* The task calls upload_in_batches(filepath, batch_size, delay_seconds).
InitDag == Init /\ filepath = JSONL_FILE_PATH

\* input() finds no terminal to read from: EOFError, before the try, so
\* nothing in upload_in_batches catches it.
PromptEOF ==
    /\ pc = "prompt"
    /\ pc' = "raised"
    /\ outcome' = "escaped"
    /\ exc' = "EOFError"
    /\ UNCHANGED <<task, reader, args, probe, run, batch_num, total_uploaded,
                   f, f_pos, batch_data, line_num, countdown, s3, events,
                   slept, printed>>

\* upload_in_batches returned: the task returns its message.
TaskReturn ==
    /\ pc = "done"
    /\ task = <<>>
    /\ task' = SuccessMessage(batch_size, delay_seconds)
    /\ UNCHANGED <<filepath, exists, file, uploader, reader>>

\* An exception came out of upload_in_batches: the task has no handler
\* and fails with it.
TaskRaise ==
    /\ pc = "raised"
    /\ task = <<>>
    /\ task' = <<"raised", exc>>
    /\ UNCHANGED <<filepath, exists, file, uploader, reader>>

NextDag ==
    \/ Next
    \/ PromptEOF
    \/ TaskReturn
    \/ TaskRaise

SpecDag == InitDag /\ [][NextDag]_vars

\* ------------------------------------------- JSONLProcessor.read_jsonl
\* The optional limit: <<>> for None, <<m>> for the integer m.
Limits == {<<>>} \cup {<<m>> : m \in 0..MaxLimit}

\* A call of read_jsonl(filepath, limit); upload_in_batches is not running.
InitRead ==
    /\ filepath \in Filepaths
    /\ exists \in BOOLEAN
    /\ file \in (IF exists THEN Files ELSE {<<>>})
    /\ limit \in Limits
    /\ rd_pc = "call"
    /\ fetched = 0
    /\ data = <<>>
    /\ loads = <<>>
    /\ warnings = <<>>
    /\ batch_size = 1
    /\ delay_seconds = 0
    /\ pc = "idle"
    /\ total_lines = 0
    /\ sample_keys = <<>>
    /\ num_batches = 0
    /\ typed = <<>>
    /\ confirm = <<>>
    /\ timestamp = <<>>
    /\ filename = <<>>
    /\ batch_num = 0
    /\ total_uploaded = 0
    /\ f = "unopened"
    /\ f_pos = 0
    /\ batch_data = <<>>
    /\ line_num = 0
    /\ countdown = 0
    /\ s3 = <<>>
    /\ events = <<>>
    /\ slept = 0
    /\ outcome = "running"
    /\ exc = "none"
    /\ printed = <<>>
    /\ task = <<>>

\* the break comes one line late
LimitReached_Late(lim, i) == lim # <<>> /\ lim[1] # 0 /\ i > lim[1]

\* limit and i >= limit, for the 0-based index i of the line just taken
LimitReached(lim, i) == lim # <<>> /\ lim[1] # 0 /\ i >= lim[1]

\* open(filepath): a missing file raises FileNotFoundError, which is
\* logged and raised again.
ReadOpen ==
    /\ rd_pc = "call"
    /\ rd_pc' = IF exists THEN "loop" ELSE "raised"
    /\ UNCHANGED <<task, filepath, exists, file, uploader, limit, fetched, data,
                   loads, warnings>>

\* an undecodable line ends the read with the exception
ReadNext_AbortOnBad ==
    /\ rd_pc = "loop"
    /\ fetched < Len(file)
    /\ fetched' = fetched + 1
    /\ LET line == file[fetched + 1] IN
       IF LimitReached(limit, fetched)
       THEN /\ rd_pc' = "returned"
            /\ UNCHANGED <<data, loads, warnings>>
       ELSE IF ~NonBlank(line)
       THEN UNCHANGED <<rd_pc, data, loads, warnings>>
       ELSE /\ loads' = Append(loads, line.n)
            /\ IF Decodable(line)
               THEN /\ data' = Append(data, JsonLoads(line))
                    /\ UNCHANGED <<rd_pc, warnings>>
               ELSE /\ rd_pc' = "raised"
                    /\ UNCHANGED <<data, warnings>>
    /\ UNCHANGED <<task, filepath, exists, file, uploader, limit>>

\* One iteration of `for i, line in enumerate(f)`: the line is taken from
\* the file, then the limit is tested, then the line is decoded.
ReadNext ==
    /\ rd_pc = "loop"
    /\ fetched < Len(file)
    /\ fetched' = fetched + 1
    /\ LET line == file[fetched + 1] IN
       IF LimitReached(limit, fetched)
       THEN \* break, then return data
            /\ rd_pc' = "returned"
            /\ UNCHANGED <<data, loads, warnings>>
       ELSE IF ~NonBlank(line)
       THEN UNCHANGED <<rd_pc, data, loads, warnings>>
       ELSE /\ loads' = Append(loads, line.n)
            /\ IF Decodable(line)
               THEN /\ data' = Append(data, JsonLoads(line))
                    /\ UNCHANGED warnings
               ELSE \* logger.warning(... line {i+1} ...); continue
                    /\ warnings' = Append(warnings, fetched + 1)
                    /\ UNCHANGED data
            /\ UNCHANGED rd_pc
    /\ UNCHANGED <<task, filepath, exists, file, uploader, limit>>

\* The file is exhausted: return data.
ReadEnd ==
    /\ rd_pc = "loop"
    /\ fetched = Len(file)
    /\ rd_pc' = "returned"
    /\ UNCHANGED <<task, filepath, exists, file, uploader, limit, fetched, data,
                   loads, warnings>>

NextRead ==
    \/ ReadOpen
    \/ ReadNext
    \/ ReadEnd

SpecRead == InitRead /\ [][NextRead]_vars

\* ------------------------------------------------- vocabulary of the claims
\* the decoded records of the decodable non-blank lines, in file order
ValidRecords(fl) ==
    LET valid == SelectSeq(fl, LAMBDA l : l.text = "json")
    IN  [i \in 1..Len(valid) |-> [id |-> valid[i].n]]

ValidCount(fl) == Cardinality({i \in 1..Len(fl) : fl[i].text = "json"})

Ceil(n, b) == (n + b - 1) \div b

RECURSIVE Flatten(_)
\* the rows of the uploaded objects, in upload order
Flatten(objs) == IF objs = <<>> THEN <<>>
                 ELSE Head(objs).rows \o Flatten(Tail(objs))

CountOf(seq, x) == Cardinality({i \in 1..Len(seq) : seq[i] = x})

\* the summary the run printed last
LastPrinted == printed[Len(printed)]

\* the run was confirmed and ended with no upload failure and no interrupt
EndedUndisturbed ==
    /\ pc = "done"
    /\ confirm = <<"y">>
    /\ exc \notin {"UploadError", "KeyboardInterrupt"}

\* C1: a confirmed run with no upload failure and no interrupt uploads
\* exactly ceil(n / b) batches (none when n = 0), every batch but the last
\* of b records and the last of the remainder.
C1_BatchCount ==
    EndedUndisturbed =>
        LET n == ValidCount(file) IN
        /\ Len(s3) = Ceil(n, batch_size)
        /\ \A i \in 1..Len(s3) :
              Len(s3[i].rows) = IF i < Len(s3) THEN batch_size
                                ELSE n - (i - 1) * batch_size

\* C2: in a run that completes, the rows of the uploaded batches, in upload
\* order, are the valid records of the file in file order.
C2_Concatenation ==
    outcome = "completed" => Flatten(s3) = ValidRecords(file)

C2_Witness ==
    /\ outcome = "completed"
    /\ Len(s3) >= 2
    /\ batch_size >= 2
    /\ \E i \in 1..Len(file) : file[i].text = "bad"
    /\ \E i \in 1..Len(file) : file[i].text = "blank"

\* C3: wherever the malformed lines are, none is uploaded and the run is
\* not aborted by them: it reaches the completion summary with every valid
\* record uploaded.
C3_MalformedHarmless ==
    EndedUndisturbed =>
        /\ \A i \in 1..Len(Flatten(s3)) :
              file[Flatten(s3)[i].id].text = "json"
        /\ \E i \in 1..Len(printed) : printed[i].kind = "completed"
        /\ Flatten(s3) = ValidRecords(file)

\* C4: a completed run of more than one batch has exactly batch_count - 1
\* pacing waits of delay_seconds each, every one between two uploads and
\* none after the last upload.
C4_PacingDelays ==
    (outcome = "completed" /\ Len(s3) > 1) =>
        /\ CountOf(events, "wait") = Len(s3) - 1
        /\ events[Len(events)] = "put"
        /\ \A i \in 1..Len(events) :
              events[i] = "wait" =>
                  /\ i > 1 /\ events[i - 1] = "put"
                  /\ i < Len(events) /\ events[i + 1] = "put"
        /\ slept = (Len(s3) - 1) * delay_seconds

\* C5: a confirmed run on a file with no valid line uploads nothing,
\* reports zero records and ends without an exception.
C5_EmptyFile ==
    (pc = "done" /\ confirm = <<"y">> /\ ValidCount(file) = 0
        /\ exc # "KeyboardInterrupt") =>
        /\ s3 = <<>>
        /\ LastPrinted.records = 0
        /\ exc = "none"
        /\ outcome = "completed"

\* C6: when an upload raises, the failure summary reports the batches
\* whose upload completed and their combined size.
C6_FailureSummary ==
    exc = "UploadError" =>
        /\ LastPrinted.kind = "failed"
        /\ LastPrinted.batches = Len(s3)
        /\ LastPrinted.records = Len(Flatten(s3))

\* C7: on a user interrupt with k uploads completed, the interruption
\* summary reports k batches and their combined record count.
C7_InterruptSummary ==
    outcome = "interrupted" =>
        /\ LastPrinted.kind = "interrupted"
        /\ LastPrinted.batches = Len(s3)
        /\ LastPrinted.records = Len(Flatten(s3))

\* C8: once the run has observed an interrupt or a failure, nothing more
\* is put and no further batch is sealed.
C8_NoPutAfterStop ==
    [][ (outcome \in {"interrupted", "failed"})
            => (s3' = s3 /\ batch_num' = batch_num) ]_vars

C8_Witness ==
    /\ exc = "UploadError"
    /\ s3 # <<>>
    /\ batch_data # <<>>
    /\ f_pos < Len(file)

\* --- reading a key back
DigitValue(c) == CHOOSE d \in 0..9 : Digit(d) = c

RECURSIVE ParseInt(_)
ParseInt(digits) ==
    IF digits = <<>> THEN 0
    ELSE 10 * ParseInt(SubSeq(digits, 1, Len(digits) - 1))
             + DigitValue(digits[Len(digits)])

RECURSIVE TakeUntil(_, _)
TakeUntil(seq, stop) ==
    IF seq = <<>> \/ Head(seq) = stop THEN <<>>
    ELSE <<Head(seq)>> \o TakeUntil(Tail(seq), stop)

\* what follows the "_batch" component of a key
AfterBatch(key) ==
    LET p == CHOOSE i \in 1..Len(key) : key[i] = "_batch"
    IN  SubSeq(key, p + 1, Len(key))

KeyDigits(key) == TakeUntil(AfterBatch(key), "_")

KeyBatchNum(key) == ParseInt(KeyDigits(key))

\* what stands between the "_" after the batch number and ".parquet"
KeyTimestamp(key) ==
    SubSeq(AfterBatch(key), Len(KeyDigits(key)) + 2, Len(AfterBatch(key)) - 1)

Extensions == {".jsonl", ".json", ".txt"}

\* the file name without its extension (os.path.splitext)
Stem(name) ==
    IF Len(name) > 1 /\ name[Len(name)] \in Extensions
    THEN SubSeq(name, 1, Len(name) - 1) ELSE name

Affirmative == { <<"y">>, <<"Y">>, <<" ", "y", " ">> }

\* C10: nothing is uploaded before the prompt has been answered, and a
\* negative answer ends the run with no upload and no error.
C10_ConfirmGate ==
    /\ [](pc \in {"start", "prompt", "confirm"} => s3 = <<>>)
    /\ [][ (pc = "confirm" /\ typed \notin Affirmative)
              => (pc' = "done" /\ outcome' = "declined" /\ exc' = "none"
                    /\ s3' = <<>> /\ printed' = <<>>) ]_vars
    /\ [](outcome = "declined" => (pc = "done" /\ s3 = <<>> /\ exc = "none"))

C10_Witness ==
    /\ outcome = "declined"
    /\ confirm = <<"y", "e", "s">>
    /\ s3 = <<>>

\* the probe has not run: its results are as at the start of the run
Unprobed == total_lines = 0 /\ sample_keys = <<>> /\ num_batches = 0

\* C11 as stated: a missing source file makes the run fail with a
\* not-found exception for the caller, and nothing is probed, asked or
\* uploaded.
C11_NotFoundRaised ==
    (~exists /\ pc = "done") =>
        /\ exc = "FileNotFoundError"
        /\ Unprobed /\ typed = <<>> /\ confirm = <<>> /\ s3 = <<>>

\* C11 amended: a missing source file ends the run at the existence check
\* with the not-found message printed and a normal return (no exception is
\* raised), and nothing is probed, asked, opened or uploaded.
C11_NotFound ==
    ~exists =>
        /\ pc \in {"start", "done"}
        /\ Unprobed /\ typed = <<>> /\ confirm = <<>> /\ s3 = <<>>
        /\ f = "unopened"
        /\ pc = "done" => (outcome = "not_found" /\ exc = "none")

C11_Witness ==
    ~exists /\ pc = "done" /\ outcome = "not_found"

\* the probe has run (the file exists and the run is past the existence
\* check)
Probed == exists /\ pc # "start"

\* C14: the probe's line_count is the number of non-blank lines of the
\* file, whatever the lines hold.
C14_LineCount ==
    Probed =>
        total_lines = Cardinality({i \in 1..Len(file) :
                                      file[i].text \in {"bad", "json"}})

\* C15: the projected batch count is ceil(total_lines / batch_size): the
\* least k with k * batch_size >= total_lines, so total_lines / batch_size
\* when that is exact, one more than the quotient otherwise, 0 for 0.
C15_Projection ==
    Probed =>
        /\ num_batches >= 0
        /\ num_batches * batch_size >= total_lines
        /\ (num_batches - 1) * batch_size < total_lines
        /\ total_lines % batch_size = 0
              => num_batches * batch_size = total_lines
        /\ total_lines % batch_size # 0
              => num_batches = (total_lines \div batch_size) + 1

C15_Witness ==
    /\ Probed
    /\ total_lines > batch_size
    /\ total_lines % batch_size # 0
    /\ num_batches = 3

Range(seq) == {seq[i] : i \in 1..Len(seq)}

\* the first non-blank line of a file that has one
FirstNonBlank(fl) ==
    fl[CHOOSE i \in 1..Len(fl) :
          fl[i].text # "blank" /\ \A j \in 1..(i - 1) : fl[j].text = "blank"]

\* C20: when the first non-blank line of the file is a record, sample_keys
\* is the key set of that record, also when blank lines come before it.
C20_SampleKeys ==
    (Probed /\ ValidCount(file) > 0 /\ FirstNonBlank(file).text = "json") =>
        Range(sample_keys) = DOMAIN ValidRecords(file)[1]

\* C16: every batch put holds 1..batch_size records; a batch is sealed in
\* the iteration in which the buffer reaches batch_size, so every batch but
\* the last is full; a short batch is put only at end-of-file, from a
\* non-empty buffer, and holds only records of the file.
C16_BatchSizes ==
    /\ Len(batch_data) <= batch_size
    /\ pc \in {"scan", "wait"} => Len(batch_data) < batch_size
    /\ pc = "upload" => Len(batch_data) = batch_size
    /\ pc = "final_upload" =>
          /\ Len(batch_data) >= 1 /\ Len(batch_data) < batch_size
          /\ f_pos = Len(file)
    /\ \A i \in 1..Len(s3) :
          /\ Len(s3[i].rows) >= 1 /\ Len(s3[i].rows) <= batch_size
          /\ i < Len(s3) => Len(s3[i].rows) = batch_size
          /\ Len(s3[i].rows) < batch_size =>
                (i = Len(s3) /\ pc = "done" /\ f_pos = Len(file))
          /\ \A k \in 1..Len(s3[i].rows) :
                file[s3[i].rows[k].id].text = "json"

C16_Witness ==
    /\ outcome = "completed"
    /\ Len(s3) >= 2
    /\ batch_size >= 2
    /\ Len(s3[Len(s3)].rows) < batch_size
    /\ Len(s3[1].rows) = batch_size

Min(a, b) == IF a < b THEN a ELSE b

\* the records cut into consecutive groups of b, the last one shorter
Partition(records, b) ==
    [i \in 1..Ceil(Len(records), b) |->
        SubSeq(records, (i - 1) * b + 1, Min(i * b, Len(records)))]

\* a key with its timestamp component taken out
WithoutTimestamp(key) ==
    SubSeq(key, 1, Len(key) - Len(KeyTimestamp(key)) - 1) \o <<".parquet">>

\* C17: what a completed run uploads is fixed by the file and batch_size
\* alone: batch i holds the i-th group of batch_size valid records, and
\* its key, the run timestamp apart, is fixed by the file path and i.  Two
\* runs that differ in the timestamp only therefore agree on the number of
\* batches and on the records of each batch number, and their keys differ
\* in the timestamp component only.
C17_SamePartition ==
    outcome = "completed" =>
        /\ [i \in 1..Len(s3) |-> s3[i].rows]
              = Partition(ValidRecords(file), batch_size)
        /\ \A i \in 1..Len(s3) :
              /\ KeyTimestamp(s3[i].key) = timestamp
              /\ \E now \in Clock : timestamp = Strftime(now)
              /\ WithoutTimestamp(s3[i].key) =
                    DEFAULT_S3_PREFIX \o Stem(Basename(filepath))
                        \o <<"_batch">> \o ZeroPad(Decimal(i), 3)
                        \o <<"_">> \o <<".parquet">>

C17_Witness ==
    /\ outcome = "completed"
    /\ Len(s3) = 3
    /\ timestamp = Strftime(42)
    /\ \E i \in 1..Len(file) : file[i].text = "bad"

\* C18: the file is opened once, when the run is confirmed, stays open
\* while the run scans, waits and uploads, and is closed by the step that
\* ends the run, whichever way it ends.
C18_Handle ==
    /\ [](f = "open" <=> pc \in {"scan", "wait", "upload", "final_upload"})
    /\ [](outcome \in {"completed", "interrupted", "failed"}
              => (pc = "done" /\ f = "closed"))
    /\ [](outcome \in {"not_found", "declined"} => f = "unopened")
    /\ [][ (f' # f) =>
              \/ (f = "unopened" /\ f' = "open" /\ pc = "confirm")
              \/ (f = "open" /\ f' = "closed" /\ pc' = "done") ]_vars

C18_Witness ==
    /\ outcome = "interrupted"
    /\ f = "closed"
    /\ countdown > 0
    /\ s3 # <<>>

LineOfValid(fl, m) ==
    CHOOSE k \in 1..Len(fl) :
        /\ fl[k].text = "json"
        /\ Cardinality({j \in 1..k : fl[j].text = "json"}) = m

\* C12 as stated: with a limit of m and at least m valid lines in the
\* file, read_jsonl returns the first m valid records, and takes no line
\* after the one that holds the m-th valid record.
C12_LimitCountsRecords ==
    (rd_pc = "returned" /\ limit # <<>> /\ limit[1] >= 1
        /\ ValidCount(file) >= limit[1]) =>
        /\ data = SubSeq(ValidRecords(file), 1, limit[1])
        /\ fetched <= LineOfValid(file, limit[1])

\* C12 amended: with a limit of m >= 1, read_jsonl returns the valid
\* records among the first m physical lines of the file (blank and
\* malformed lines use up the limit); no line after the m-th is decoded,
\* and at most one line after it is taken from the file.
C12_LimitCountsLines ==
    (rd_pc = "returned" /\ limit # <<>> /\ limit[1] >= 1) =>
        /\ data = ValidRecords(SubSeq(file, 1, Min(limit[1], Len(file))))
        /\ \A k \in 1..Len(loads) : loads[k] <= limit[1]
        /\ fetched <= limit[1] + 1
        /\ fetched = Min(limit[1] + 1, Len(file))

C12_Witness ==
    /\ rd_pc = "returned"
    /\ limit = <<2>>
    /\ Len(file) >= 4
    /\ file[1].text = "bad"
    /\ ValidCount(file) >= 2
    /\ Len(data) = 1

\* C13: without a limit, read_jsonl of an existing file returns the
\* decoded records of its decodable non-blank lines in file order; blank
\* lines are skipped, a malformed line is logged with its 1-based number
\* and skipped, and the read never ends in an exception.
C13_ReadAll ==
    /\ (rd_pc = "returned" /\ limit = <<>>) =>
          /\ data = ValidRecords(file)
          /\ fetched = Len(file)
          /\ warnings = SelectSeq([k \in 1..Len(file) |-> k],
                                  LAMBDA k : file[k].text = "bad")
          /\ \A k \in 1..Len(loads) : file[loads[k]].text # "blank"
    /\ (exists /\ limit = <<>>) => rd_pc # "raised"

C13_Witness ==
    /\ rd_pc = "returned"
    /\ limit = <<>>
    /\ Len(file) >= 4
    /\ \E k \in 1..(Len(file) - 1) :
          file[k].text = "bad" /\ file[k + 1].text = "json"
    /\ \E k \in 1..Len(file) : file[k].text = "blank"
    /\ Len(data) >= 2

\* C21: at the start of every iteration of the line loop, and when the
\* file is exhausted, the valid records scanned so far are the uploaded
\* ones plus the buffered ones, and the buffer is below the batch size.
C21_Conservation ==
    pc = "scan" =>
        /\ line_num = total_uploaded + Len(batch_data)
        /\ Len(batch_data) < batch_size
        /\ line_num = ValidCount(SubSeq(file, 1, f_pos))

C21_Witness ==
    /\ pc = "scan"
    /\ f_pos = Len(file)
    /\ total_uploaded >= 2
    /\ batch_data # <<>>
    /\ line_num < CountNonBlank(file)
    /\ CountNonBlank(file) < Len(file)

\* C22: an upload failure, a serialization failure, an arithmetic error or
\* an interrupt inside the try of upload_in_batches never leaves the
\* function as an exception; in each of these cases, and when the source
\* file is missing, the DAG task ends by returning its success message.
C22_TaskSucceeds ==
    outcome \in {"failed", "interrupted", "not_found"} =>
        /\ pc = "done"
        /\ task \in {<<>>, SuccessMessage(batch_size, delay_seconds)}

C22_Witness ==
    /\ task = SuccessMessage(batch_size, delay_seconds)
    /\ outcome = "failed"
    /\ exc = "UploadError"
    /\ s3 # <<>>

====
